---- MODULE Spec2Model ----
(***************************************************************************)
(* Boss respawn timer (src/main.py): the ButtonTimer countdowns and the    *)
(* MainWindow handlers that drive them, the ScannerThread sampling loop    *)
(* and the SpeechEngine queue with its single worker thread.               *)
(***************************************************************************)
EXTENDS Integers, Sequences, FiniteSets, TLC

(***************************************************************************)
(* Program constants.                                                      *)
(***************************************************************************)
TIMER_DURATION == 19 * 60 + 55

\* tick_all speaks when a Running timer shows this many seconds.
PRE_ALERT == 3

\* The first two entries of MainWindow.BUTTON_NAMES; self.timers keeps this order.
BUTTON_NAMES == <<"btn_naga", "btn_pixi">>

\* btn.text(): the caption the generated Ui_MainWindow gives each button.
ButtonText(b) ==
    CASE b = "btn_naga" -> "Naga"
      [] b = "btn_pixi" -> "Pixi"

\* name[4:] (the attribute name without its "btn_" prefix).
StripBtn(b) ==
    CASE b = "btn_naga" -> "naga"
      [] b = "btn_pixi" -> "pixi"

NumTimers == Len(BUTTON_NAMES)
TimerIdx == 1..NumTimers

\* The keys of boss_images, in dict order: one per .bmp file of the resource
\* folder.  "dragon" is a template file with no button of that name.
TemplateKeys == <<"naga", "dragon">>

\* self.template_to_boss_name: {name[4:]: button text}.
template_to_boss_name ==
    [k \in {StripBtn(BUTTON_NAMES[i]) : i \in TimerIdx} |->
        ButtonText(BUTTON_NAMES[CHOOSE i \in TimerIdx : StripBtn(BUTTON_NAMES[i]) = k])]

\* self.template_to_boss_name.get(template_key, template_key)
BossNameOf(template_key) ==
    IF template_key \in DOMAIN template_to_boss_name
    THEN template_to_boss_name[template_key]
    ELSE template_key

\* Every name a boss_detected signal can carry.
SignalNames == {BossNameOf(TemplateKeys[k]) : k \in 1..Len(TemplateKeys)}

\* Python's None: the queue sentinel of stop() and the empty last_detected_boss.
None == "None"

\* ScannerThread.run accepts a template at max_val >= 0.9; scores are kept in
\* hundredths.
MATCH_THRESHOLD == 90

\* The max_val values a template can score on a frame.
Scores == {89, 90, 95}

\* queue.Queue() is built with the default maxsize 0: put() never finds it full.
QUEUE_MAXSIZE == 0

\* The two announcements of toggle_scanner ("Сканер активирован" and
\* "Сканер деактивирован").
SCANNER_ON_TEXT == "Scanner activated"
SCANNER_OFF_TEXT == "Scanner deactivated"

\* The message run prints for an error it caught ("Ошибка сканера: ...").
SCAN_ERROR_TEXT == "Scan error"

(***************************************************************************)
(* Bounds of the model.                                                    *)
(***************************************************************************)
\* start() calls in one behaviour (button presses and detections together).
MaxStarts == 3
\* A trigger arrives only while every other Running timer is within MaxSkew
\* ticks of its start or of its expiry.
MaxSkew == 2
\* toggle_scanner calls in one behaviour.
MaxToggles == 3
\* boss_detected signals emitted and not yet delivered to the slot.
MaxSignals == 1
\* Length up to which a run of like samples is counted.
MaxStreak == 3
\* In the specification of all three flows, the ticks a freshly started
\* timer is followed for.
MaxTicks == 2
\* In the specification of all three flows, the sampling iterations.
MaxSamples == 1
\* In the specifications with the notification flow, the toggle_scanner calls.
MaxSpeechToggles == 2

VARIABLES
    timers,          \* self.timers: sequence of [name, remaining, active, color]
    label_now,       \* ui.label_now text
    label_next,      \* ui.label_next text
    label_timer,     \* ui.label_timer text, a sequence of characters
    scanner_active,  \* MainWindow.scanner_active
    gui_pc,          \* where the GUI thread is: "idle" between handlers
    speech_queue,    \* SpeechEngine.queue
    worker_pc,       \* SpeechEngine._worker: "get", "say", "done", "dead", "killed"
    worker_text,     \* the text _worker holds
    scan_active,     \* ScannerThread.active
    scan_pc,         \* ScannerThread.run: "off", "top", "body", "sleep", "exit"
    last_detected_boss,
    signals,         \* boss_detected emissions queued for the GUI thread
    \* history variables, read by the properties only
    op,              \* the GUI handler that ran last
    starts,          \* number of start() calls so far
    toggles,         \* number of toggle_scanner calls so far
    since,           \* per timer: tick() calls since its last start(), -1 before any
    alerts,          \* per timer: names enqueued since its last start()
    alerted,         \* timers whose name the last tick_all enqueued
    trig,            \* the timer the last trigger named, 0 if none did
    runFrom,         \* per timer: the state its last start() found it in
    lastTrig,        \* the timer started last, 0 before any start()
    enqueued,        \* payloads put on the queue, in order
    begun,           \* payloads whose delivery has begun, in order
    delivered,       \* payloads whose delivery has completed, in order
    sentinelAt,      \* Len(enqueued) when stop() put the sentinel, -1 before
    streakKey,       \* the key of the current run of samples only it qualifies in
    streakLen,       \* the length of that run, up to MaxStreak
    streakEmits,     \* the events emitted during that run
    prevNone,        \* the last sample completed with no qualifying template
    everEmitted,     \* the keys emitted so far
    reappeared,      \* keys emitted before that qualify in the last sample, the
                     \* one before it having had no qualifying template
    sampleEmit,      \* the key the last sample emitted, as a sequence
    sampleFirst,     \* the first qualifying key of the last sample, as a sequence
    samples,         \* sampling iterations so far, up to MaxSamples
    sampleRaised,    \* the last sampling iteration raised an error
    printed,         \* the kinds of error message printed so far
    afterStop        \* since the last stop_scan(), while no start_scan() has
                     \* followed: at, where the loop was when it returned;
                     \* iters, the iterations completed; emits, the events emitted

timerVars == <<timers, label_now, label_next, label_timer>>
guiVars == <<scanner_active, gui_pc>>
speechVars == <<speech_queue, worker_pc, worker_text>>
scanVars == <<scan_active, scan_pc, last_detected_boss, signals>>
timerHist == <<op, starts, toggles, since, alerts, alerted, trig, runFrom, lastTrig>>
speechHist == <<enqueued, begun, delivered, sentinelAt>>
scanHist == <<streakKey, streakLen, streakEmits, prevNone, everEmitted,
              reappeared, sampleEmit, sampleFirst, samples, sampleRaised, printed>>
vars == <<timerVars, guiVars, speechVars, scanVars, timerHist, speechHist, scanHist,
          afterStop>>

(***************************************************************************)
(* ButtonTimer                                                             *)
(***************************************************************************)
ButtonTimer(name) ==
    [name |-> name, remaining |-> 0, active |-> FALSE, color |-> "black"]

\* start() that sets the count and leaves the flag.
startNoFlag(t) ==
    [t EXCEPT !.remaining = TIMER_DURATION, !.color = "red"]

\* start() that leaves a Running timer alone.
startIfIdle(t) ==
    IF t.active THEN t
    ELSE [t EXCEPT !.remaining = TIMER_DURATION, !.active = TRUE, !.color = "red"]

start(t) ==
    [t EXCEPT !.remaining = TIMER_DURATION, !.active = TRUE, !.color = "red"]

\* tick() that leaves the colour of an expiring timer.
tickNoGreen(t) ==
    IF t.active /\ t.remaining > 0
    THEN IF t.remaining - 1 = 0
         THEN [t EXCEPT !.remaining = 0, !.active = FALSE]
         ELSE [t EXCEPT !.remaining = t.remaining - 1]
    ELSE t

\* tick() that marks a timer that is not counting as complete.
tickMarkIdle(t) ==
    IF t.active /\ t.remaining > 0
    THEN IF t.remaining - 1 = 0
         THEN [t EXCEPT !.remaining = 0, !.active = FALSE, !.color = "green"]
         ELSE [t EXCEPT !.remaining = t.remaining - 1]
    ELSE [t EXCEPT !.color = "green"]

\* tick() that never clears the active flag.
tickKeepActive(t) ==
    IF t.active /\ t.remaining > 0
    THEN [t EXCEPT !.remaining = t.remaining - 1]
    ELSE t

tick(t) ==
    IF t.active /\ t.remaining > 0
    THEN IF t.remaining - 1 = 0
         THEN [t EXCEPT !.remaining = 0, !.active = FALSE, !.color = "green"]
         ELSE [t EXCEPT !.remaining = t.remaining - 1]
    ELSE t

is_active(t) == t.active

Digit(d) == <<"0", "1", "2", "3", "4", "5", "6", "7", "8", "9">>[d + 1]

\* str(n) for n >= 0, as a sequence of characters.
RECURSIVE Str(_)
Str(n) == IF n < 10 THEN <<Digit(n)>> ELSE Str(n \div 10) \o <<Digit(n % 10)>>

\* f"{n:02d}": zero-padded to at least two characters.
Pad02(n) == IF Len(Str(n)) < 2 THEN <<"0">> \o Str(n) ELSE Str(n)

get_time(t) ==
    LET m == t.remaining \div 60
        s == t.remaining % 60
    IN  Pad02(m) \o <<":">> \o Pad02(s)

(***************************************************************************)
(* SpeechEngine                                                            *)
(***************************************************************************)
\* A bounded queue of one slot.
FullOneSlot(q) == Len(q) >= 1

\* Queue.put blocks only on a full queue.
Full(q) == QUEUE_MAXSIZE > 0 /\ Len(q) >= QUEUE_MAXSIZE

speak(q, text) == Append(q, text)

\* A get() that takes the newest entry.
QueueGetNewest(q) == [item |-> q[Len(q)], rest |-> SubSeq(q, 1, Len(q) - 1)]

\* Queue.get on a non-empty queue: the oldest entry.
QueueGet(q) == [item |-> Head(q), rest |-> Tail(q)]

\* text = self.queue.get(); if text is None: break
WorkerGet ==
    /\ worker_pc = "get"
    /\ speech_queue # <<>>
    /\ LET g == QueueGet(speech_queue)
       IN  /\ speech_queue' = g.rest
           /\ \/ /\ g.item = None
                 /\ worker_pc' = "done"
                 /\ UNCHANGED <<worker_text, begun>>
              \/ /\ g.item # None
                 /\ worker_pc' = "say"
                 /\ worker_text' = g.item
                 /\ begun' = Append(begun, g.item)
    /\ UNCHANGED <<timerVars, guiVars, scanVars, timerHist, scanHist, afterStop,
                   enqueued, delivered, sentinelAt>>

\* self.engine.say(text); self.engine.runAndWait(); self.queue.task_done().
\* An error raised by the engine is caught nowhere and ends the thread.
WorkerSay ==
    /\ worker_pc = "say"
    /\ \/ /\ worker_pc' = "get"
          /\ delivered' = Append(delivered, worker_text)
       \/ /\ worker_pc' = "dead"
          /\ UNCHANGED delivered
    /\ UNCHANGED <<timerVars, guiVars, scanVars, timerHist, scanHist, afterStop,
                   speech_queue, worker_text, enqueued, begun, sentinelAt>>

(***************************************************************************)
(* ScannerThread                                                           *)
(***************************************************************************)
NumTemplates == Len(TemplateKeys)

\* One iteration's input: the score of every template on the frame, and the
\* first step that raises: 0 the screen capture, k the matching of template
\* k, NumTemplates + 1 none.
Samples ==
    [max_val : [1..NumTemplates -> Scores], raises_at : 0..(NumTemplates + 1)]

\* The acceptance test with > in place of >=.
QualifiesStrict(max_val) == max_val > MATCH_THRESHOLD

Qualifies(max_val) == max_val >= MATCH_THRESHOLD

\* The for loop without its else clause: last_detected_boss is kept.
RECURSIVE ScanLoopNoReset(_, _, _)
ScanLoopNoReset(k, last, s) ==
    IF k > NumTemplates THEN [last |-> last, emit |-> <<>>, raised |-> FALSE]
    ELSE IF s.raises_at = k THEN [last |-> last, emit |-> <<>>, raised |-> TRUE]
    ELSE IF Qualifies(s.max_val[k]) /\ last # TemplateKeys[k]
         THEN [last |-> TemplateKeys[k], emit |-> <<TemplateKeys[k]>>, raised |-> FALSE]
         ELSE ScanLoopNoReset(k + 1, last, s)

\* The for loop of run from template k on: the new last_detected_boss, the
\* key emitted, if any, and whether the loop was left by an error.
RECURSIVE ScanLoop(_, _, _)
ScanLoop(k, last, s) ==
    IF k > NumTemplates THEN [last |-> None, emit |-> <<>>, raised |-> FALSE]
    ELSE IF s.raises_at = k THEN [last |-> last, emit |-> <<>>, raised |-> TRUE]
    ELSE IF Qualifies(s.max_val[k]) /\ last # TemplateKeys[k]
         THEN [last |-> TemplateKeys[k], emit |-> <<TemplateKeys[k]>>, raised |-> FALSE]
         ELSE ScanLoop(k + 1, last, s)

\* The try block of run.
ScanBody(last, s) ==
    IF s.raises_at = 0 THEN [last |-> last, emit |-> <<>>, raised |-> TRUE]
    ELSE ScanLoop(1, last, s)

\* An error that leaves run and ends the thread.
AfterBodyUncaught(r) == IF r.raised THEN "exit" ELSE "sleep"

\* Where run goes on after the try statement: except Exception prints the
\* error, and both ways lead to time.sleep(0.5).
AfterBody(r) == "sleep"

\* The history of a stop_scan() before any is called or after a start_scan().
NoStop == [at |-> "off", iters |-> 0, emits |-> 0]

\* Counts up to 2.
Upto2(n) == IF n >= 2 THEN 2 ELSE n

\* Nothing raises in the sample.
Clean(s) == s.raises_at = NumTemplates + 1

\* The templates that score at least the threshold on the frame.
Qual(s) == {k \in 1..NumTemplates : s.max_val[k] >= MATCH_THRESHOLD}

FirstQual(s) ==
    IF Qual(s) = {} THEN <<>>
    ELSE <<TemplateKeys[CHOOSE k \in Qual(s) : \A j \in Qual(s) : k <= j]>>

Cap(n) == IF n > MaxStreak THEN MaxStreak ELSE n

\* with self.lock: if not self.active: break
ScanCheck ==
    /\ scan_pc = "top"
    /\ scan_pc' = IF scan_active THEN "body" ELSE "exit"
    /\ UNCHANGED <<timerVars, guiVars, speechVars, timerHist, speechHist, scanHist,
                   afterStop, scan_active, last_detected_boss, signals>>

ScanIterate(s) ==
    /\ scan_pc = "body"
    /\ Len(signals) < MaxSignals
    /\ LET r == ScanBody(last_detected_boss, s)
           sole == Clean(s) /\ Cardinality(Qual(s)) = 1
           key == IF sole THEN FirstQual(s)[1] ELSE None
           n == Len(r.emit)
       IN  /\ last_detected_boss' = r.last
           /\ signals' = IF n = 0 THEN signals
                         ELSE Append(signals, BossNameOf(r.emit[1]))
           /\ IF sole /\ streakLen >= 1 /\ streakKey = key
              THEN /\ streakLen' = Cap(streakLen + 1)
                   /\ streakEmits' = Cap(streakEmits + n)
                   /\ UNCHANGED streakKey
              ELSE IF sole /\ r.emit = <<key>>
              THEN /\ streakKey' = key
                   /\ streakLen' = 1
                   /\ streakEmits' = 1
              ELSE /\ streakKey' = None
                   /\ streakLen' = 0
                   /\ streakEmits' = 0
           /\ prevNone' = (Clean(s) /\ Qual(s) = {})
           /\ everEmitted' = everEmitted \cup {r.emit[j] : j \in 1..n}
           /\ reappeared' = IF prevNone /\ Clean(s)
                            THEN {TemplateKeys[k] : k \in Qual(s)} \cap everEmitted
                            ELSE {}
           /\ sampleEmit' = r.emit
           /\ sampleFirst' = IF Clean(s) THEN FirstQual(s) ELSE <<>>
           /\ sampleRaised' = r.raised
           /\ printed' = IF r.raised THEN printed \cup {SCAN_ERROR_TEXT} ELSE printed
           /\ afterStop' = IF scan_active THEN afterStop
                            ELSE [afterStop EXCEPT !.iters = Upto2(@ + 1),
                                                   !.emits = Upto2(@ + n)]
           /\ scan_pc' = AfterBody(r)
    /\ samples' = IF samples < MaxSamples THEN samples + 1 ELSE samples
    /\ UNCHANGED <<timerVars, guiVars, speechVars, timerHist, speechHist, scan_active>>

\* A loop that tests the flag once, before its first iteration.
ScanSleepNoCheck ==
    /\ scan_pc = "sleep"
    /\ scan_pc' = "body"
    /\ UNCHANGED <<timerVars, guiVars, speechVars, timerHist, speechHist, scanHist,
                   afterStop, scan_active, last_detected_boss, signals>>

\* time.sleep(0.5), and back to while True.
ScanSleep ==
    /\ scan_pc = "sleep"
    /\ scan_pc' = "top"
    /\ UNCHANGED <<timerVars, guiVars, speechVars, timerHist, speechHist, scanHist,
                   afterStop, scan_active, last_detected_boss, signals>>

\* run returns: isRunning() turns false.
ScanFinish ==
    /\ scan_pc = "exit"
    /\ scan_pc' = "off"
    /\ UNCHANGED <<timerVars, guiVars, speechVars, timerHist, speechHist, scanHist,
                   afterStop, scan_active, last_detected_boss, signals>>

(***************************************************************************)
(* MainWindow                                                              *)
(***************************************************************************)
\* The pre-alert test with <= in place of ==.
PreAlertDueLe(t) == is_active(t) /\ t.remaining <= PRE_ALERT

PreAlertDue(t) == is_active(t) /\ t.remaining = PRE_ALERT

\* The for loop of tick_all from timer i on: ts the timers, q the speech
\* queue, said the timers whose name has been enqueued in this call, blocked
\* whether a put found the queue full.
RECURSIVE TickLoop(_, _, _, _)
TickLoop(i, ts, q, said) ==
    IF i > Len(ts) THEN [ts |-> ts, q |-> q, said |-> said, blocked |-> FALSE]
    ELSE LET t == ts[i]
             hit == PreAlertDue(t)
         IN  IF hit /\ Full(q)
             THEN [ts |-> ts, q |-> q, said |-> said, blocked |-> TRUE]
             ELSE TickLoop(i + 1,
                           [ts EXCEPT ![i] = tick(t)],
                           IF hit THEN speak(q, t.name) ELSE q,
                           IF hit THEN said \cup {i} ELSE said)

\* [t for t in self.timers if t.is_active()], as indexes into ts.
RECURSIVE ActiveFrom(_, _)
ActiveFrom(i, ts) ==
    IF i > Len(ts) THEN <<>>
    ELSE (IF is_active(ts[i]) THEN <<i>> ELSE <<>>) \o ActiveFrom(i + 1, ts)

\* min() that keeps the last of the smallest.
RECURSIVE MinFromLast(_, _, _, _)
MinFromLast(k, idx, ts, best) ==
    IF k > Len(idx) THEN best
    ELSE MinFromLast(k + 1, idx, ts,
                     IF ts[idx[k]].remaining <= ts[best].remaining THEN idx[k] ELSE best)

\* min(active_timers, key=lambda t: t.remaining): the first of the smallest.
RECURSIVE MinFrom(_, _, _, _)
MinFrom(k, idx, ts, best) ==
    IF k > Len(idx) THEN best
    ELSE MinFrom(k + 1, idx, ts,
                 IF ts[idx[k]].remaining < ts[best].remaining THEN idx[k] ELSE best)

update_labels(ts) ==
    LET active_timers == ActiveFrom(1, ts)
    IN  IF Len(active_timers) > 0
        THEN LET next_timer == ts[MinFrom(2, active_timers, ts, active_timers[1])]
             IN  [next |-> next_timer.name, timer |-> get_time(next_timer)]
        ELSE [next |-> "", timer |-> <<>>]

\* The state start() finds a timer in.
StateOf(t) ==
    IF t.active
    THEN (IF t.remaining = TIMER_DURATION THEN "fresh" ELSE "mid")
    ELSE (IF t.color = "green" THEN "expired" ELSE "idle")

Bump(n) == IF n < 0 THEN n ELSE IF n > TIMER_DURATION THEN n ELSE n + 1

\* A trigger for timer i arrives only within MaxSkew ticks of the start or the
\* expiry of every other Running timer.
WithinSkew(i) ==
    \A j \in TimerIdx :
        j # i /\ timers[j].active =>
            \/ TIMER_DURATION - timers[j].remaining <= MaxSkew
            \/ timers[j].remaining <= MaxSkew

\* The history of a start() of timer i.
Started(i) ==
    /\ starts' = starts + 1
    /\ since' = [since EXCEPT ![i] = 0]
    /\ alerts' = [alerts EXCEPT ![i] = 0]
    /\ alerted' = {}
    /\ trig' = i
    /\ runFrom' = [runFrom EXCEPT ![i] = StateOf(timers[i])]
    /\ lastTrig' = i
    /\ UNCHANGED toggles

\* A button that leaves label_now alone when its timer is Running.
handle_button_running(i) ==
    /\ gui_pc = "idle"
    /\ starts < MaxStarts
    /\ WithinSkew(i)
    /\ timers' = [timers EXCEPT ![i] = start(timers[i])]
    /\ label_now' = IF timers[i].active THEN label_now ELSE timers[i].name
    /\ op' = "handle_button"
    /\ Started(i)
    /\ UNCHANGED <<label_next, label_timer, guiVars, speechVars, scanVars,
                   speechHist, scanHist, afterStop>>

handle_button(i) ==
    /\ gui_pc = "idle"
    /\ starts < MaxStarts
    /\ WithinSkew(i)
    /\ timers' = [timers EXCEPT ![i] = start(timers[i])]
    /\ label_now' = timers[i].name
    /\ op' = "handle_button"
    /\ Started(i)
    /\ UNCHANGED <<label_next, label_timer, guiVars, speechVars, scanVars,
                   speechHist, scanHist, afterStop>>

\* The first timer of ts from i on whose name is boss_name, 0 if there is none.
RECURSIVE FindTimer(_, _, _)
FindTimer(i, ts, boss_name) ==
    IF i > Len(ts) THEN 0
    ELSE IF ts[i].name = boss_name THEN i
    ELSE FindTimer(i + 1, ts, boss_name)

\* The slot of boss_detected, less the queue the signal waited in.
on_boss_detected(boss_name) ==
    /\ gui_pc = "idle"
    /\ LET i == FindTimer(1, timers, boss_name)
       IN  \/ /\ i # 0
              /\ starts < MaxStarts
              /\ WithinSkew(i)
              /\ timers' = [timers EXCEPT ![i] = start(timers[i])]
              /\ label_now' = boss_name
              /\ Started(i)
              /\ UNCHANGED <<label_next, label_timer>>
           \/ /\ i = 0
              /\ alerted' = {}
              /\ trig' = 0
              /\ UNCHANGED <<timerVars, starts, toggles, since, alerts, runFrom, lastTrig>>
    /\ op' = "on_boss_detected"
    /\ UNCHANGED <<guiVars, speechVars, scan_active, scan_pc, last_detected_boss,
                   speechHist, scanHist, afterStop>>

\* A boss_detected signal reaches the slot from outside the model.
DetectionEvent ==
    \E n \in SignalNames : on_boss_detected(n) /\ UNCHANGED signals

\* The GUI thread takes the oldest queued boss_detected signal to the slot.
DeliverSignal ==
    /\ signals # <<>>
    /\ on_boss_detected(Head(signals))
    /\ signals' = Tail(signals)

\* A put of tick_all would find the queue full and block the handler.
TickAllBlocked == TickLoop(1, timers, speech_queue, {}).blocked

tick_all ==
    /\ gui_pc = "idle"
    /\ ~TickAllBlocked
    /\ LET r == TickLoop(1, timers, speech_queue, {})
           l == update_labels(r.ts)
       IN  /\ timers' = r.ts
           /\ speech_queue' = r.q
           /\ label_next' = l.next
           /\ label_timer' = l.timer
           /\ alerts' = [i \in TimerIdx |->
                            IF i \in r.said THEN alerts[i] + 1 ELSE alerts[i]]
           /\ alerted' = r.said
           /\ enqueued' = enqueued \o SubSeq(r.q, Len(speech_queue) + 1, Len(r.q))
    /\ op' = "tick_all"
    /\ since' = [i \in TimerIdx |-> Bump(since[i])]
    /\ trig' = 0
    /\ UNCHANGED <<label_now, guiVars, worker_pc, worker_text, scanVars,
                   starts, toggles, runFrom, lastTrig, begun, delivered, sentinelAt,
                   scanHist, afterStop>>

\* In the specifications of all three flows a timer is followed for MaxTicks
\* ticks after its start().
TickBudget ==
    \A i \in TimerIdx :
        timers[i].active /\ timers[i].remaining > PRE_ALERT + 1 =>
            TIMER_DURATION - timers[i].remaining < MaxTicks

\* toggle_scanner with the scanner on: stop_scan(), the button, the announcement.
toggle_scanner_off ==
    /\ gui_pc = "idle"
    /\ scanner_active
    /\ toggles < MaxToggles
    /\ ~Full(speech_queue)
    /\ scan_active' = FALSE
    /\ afterStop' = [at |-> scan_pc, iters |-> 0, emits |-> 0]
    /\ speech_queue' = speak(speech_queue, SCANNER_OFF_TEXT)
    /\ enqueued' = Append(enqueued, SCANNER_OFF_TEXT)
    /\ scanner_active' = FALSE
    /\ op' = "toggle_scanner"
    /\ toggles' = toggles + 1
    /\ alerted' = {}
    /\ trig' = 0
    /\ UNCHANGED <<timerVars, gui_pc, worker_pc, worker_text, scan_pc,
                   last_detected_boss, signals, starts, since, alerts, runFrom, lastTrig,
                   begun, delivered, sentinelAt, scanHist>>

\* toggle_scanner with the scanner off, up to the first statement of
\* start_scan(): with self.lock: self.active = True.
toggle_scanner_on ==
    /\ gui_pc = "idle"
    /\ ~scanner_active
    /\ toggles < MaxToggles
    /\ scan_active' = TRUE
    /\ afterStop' = NoStop
    /\ gui_pc' = "start_scan"
    /\ op' = "toggle_scanner"
    /\ toggles' = toggles + 1
    /\ alerted' = {}
    /\ trig' = 0
    /\ UNCHANGED <<timerVars, scanner_active, speechVars, scan_pc,
                   last_detected_boss, signals, starts, since, alerts, runFrom, lastTrig,
                   speechHist, scanHist>>

\* The rest of it: if not self.isRunning(): self.start(), then the button
\* and the announcement.
toggle_scanner_on_rest ==
    /\ gui_pc = "start_scan"
    /\ ~Full(speech_queue)
    /\ scan_pc' = IF scan_pc = "off" THEN "top" ELSE scan_pc
    /\ speech_queue' = speak(speech_queue, SCANNER_ON_TEXT)
    /\ enqueued' = Append(enqueued, SCANNER_ON_TEXT)
    /\ scanner_active' = TRUE
    /\ gui_pc' = "idle"
    /\ UNCHANGED <<timerVars, worker_pc, worker_text, scan_active,
                   last_detected_boss, signals, timerHist,
                   begun, delivered, sentinelAt, scanHist, afterStop>>

\* closeEvent up to scanner_thread.wait(): stop_scan() and quit().
closeEvent ==
    /\ gui_pc = "idle"
    /\ scan_active' = FALSE
    /\ afterStop' = [at |-> scan_pc, iters |-> 0, emits |-> 0]
    /\ gui_pc' = "closing"
    /\ op' = "closeEvent"
    /\ alerted' = {}
    /\ trig' = 0
    /\ UNCHANGED <<timerVars, scanner_active, speechVars, scan_pc,
                   last_detected_boss, signals, starts, toggles, since, alerts,
                   runFrom, lastTrig, speechHist, scanHist>>

\* wait() returns once run has returned; then self.speech.stop().
closeEvent_rest ==
    /\ gui_pc = "closing"
    /\ scan_pc = "off"
    /\ ~Full(speech_queue)
    /\ speech_queue' = speak(speech_queue, None)
    /\ sentinelAt' = Len(enqueued)
    /\ gui_pc' = "closed"
    /\ UNCHANGED <<timerVars, scanner_active, worker_pc, worker_text, scanVars,
                   timerHist, enqueued, begun, delivered, scanHist, afterStop>>

\* sys.exit(app.exec()): the window is closed, the event loop returns and the
\* interpreter exits without joining the daemon worker thread.
ProcessExit ==
    /\ gui_pc = "closed"
    /\ gui_pc' = "exited"
    /\ worker_pc' = IF worker_pc \in {"get", "say"} THEN "killed" ELSE worker_pc
    /\ UNCHANGED <<timerVars, scanner_active, speech_queue, worker_text, scanVars,
                   timerHist, speechHist, scanHist, afterStop>>

(***************************************************************************)
(* Specifications                                                          *)
(***************************************************************************)
Fresh ==
    /\ scanner_active = FALSE
    /\ gui_pc = "idle"
    /\ speech_queue = <<>>
    /\ worker_pc = "get"
    /\ worker_text = ""
    /\ scan_active = FALSE
    /\ scan_pc = "off"
    /\ last_detected_boss = None
    /\ signals = <<>>
    /\ toggles = 0
    /\ alerts = [i \in TimerIdx |-> 0]
    /\ alerted = {}
    /\ trig = 0
    /\ enqueued = <<>>
    /\ begun = <<>>
    /\ delivered = <<>>
    /\ sentinelAt = -1
    /\ streakKey = None
    /\ streakLen = 0
    /\ streakEmits = 0
    /\ prevNone = FALSE
    /\ everEmitted = {}
    /\ reappeared = {}
    /\ sampleEmit = <<>>
    /\ sampleFirst = <<>>
    /\ samples = 0
    /\ sampleRaised = FALSE
    /\ printed = {}
    /\ afterStop = NoStop

\* The program as MainWindow.__init__ leaves it.
Init ==
    /\ Fresh
    /\ timers = [i \in TimerIdx |-> ButtonTimer(ButtonText(BUTTON_NAMES[i]))]
    /\ label_now = ""
    /\ label_next = ""
    /\ label_timer = <<>>
    /\ op = "init"
    /\ starts = 0
    /\ since = [i \in TimerIdx |-> -1]
    /\ runFrom = [i \in TimerIdx |-> "none"]
    /\ lastTrig = 0

\* The timer flow alone: the button presses, the boss_detected signals as they
\* reach the slot, and the one-second timeout.
NextTimers ==
    \/ \E i \in TimerIdx : handle_button(i)
    \/ DetectionEvent
    \/ tick_all

SpecTimers == Init /\ [][NextTimers]_vars

\* The scanner thread, its toggle and the slot its signals reach.
NextScanner ==
    \/ toggle_scanner_on
    \/ toggle_scanner_on_rest
    \/ toggle_scanner_off
    \/ ScanCheck
    \/ \E s \in Samples : ScanIterate(s)
    \/ ScanSleep
    \/ ScanFinish
    \/ DeliverSignal

SpecScanner == Init /\ [][NextScanner]_vars

\* The program TIMER_DURATION - 4 seconds after the buttons of the timers in
\* S were pressed within one second, j the last of them, and nothing else
\* happened: right after the tick_all that leaves them 4 seconds.  SpecTimers
\* reaches each of these states from Init.
InitRunning ==
    /\ Fresh
    /\ \E S \in (SUBSET TimerIdx) \ {{}} : \E j \in S :
          /\ timers = [i \in TimerIdx |->
                         IF i \in S
                         THEN [name |-> ButtonText(BUTTON_NAMES[i]),
                               remaining |-> PRE_ALERT + 1,
                               active |-> TRUE, color |-> "red"]
                         ELSE ButtonTimer(ButtonText(BUTTON_NAMES[i]))]
          /\ label_now = ButtonText(BUTTON_NAMES[j])
          /\ starts = Cardinality(S)
          /\ since = [i \in TimerIdx |->
                        IF i \in S THEN TIMER_DURATION - (PRE_ALERT + 1) ELSE -1]
          /\ runFrom = [i \in TimerIdx |-> IF i \in S THEN "idle" ELSE "none"]
          /\ lastTrig = j
    /\ op = "tick_all"
    /\ label_next = update_labels(timers).next
    /\ label_timer = update_labels(timers).timer

\* The notification flow with what feeds it and what ends it: the timeout
\* of timers about to alert, the scanner toggle with the thread it starts,
\* the worker, and the closing of the window.
NextSpeech ==
    \/ tick_all
    \/ toggles < MaxSpeechToggles /\ toggle_scanner_on
    \/ toggle_scanner_on_rest
    \/ toggles < MaxSpeechToggles /\ toggle_scanner_off
    \/ closeEvent
    \/ closeEvent_rest
    \/ ProcessExit
    \/ ScanCheck
    \/ samples < MaxSamples /\ \E s \in Samples : ScanIterate(s)
    \/ ScanSleep
    \/ ScanFinish
    \/ WorkerGet
    \/ WorkerSay

SpecSpeech == (Init \/ InitRunning) /\ [][NextSpeech]_vars

\* The three flows together.
Next ==
    \/ \E i \in TimerIdx : handle_button(i)
    \/ DeliverSignal
    \/ TickBudget /\ tick_all
    \/ toggles < MaxSpeechToggles /\ toggle_scanner_on
    \/ toggle_scanner_on_rest
    \/ toggles < MaxSpeechToggles /\ toggle_scanner_off
    \/ closeEvent
    \/ closeEvent_rest
    \/ ProcessExit
    \/ ScanCheck
    \/ samples < MaxSamples /\ \E s \in Samples : ScanIterate(s)
    \/ ScanSleep
    \/ ScanFinish
    \/ WorkerGet
    \/ WorkerSay

\* From construction, or from a state with timers about to alert.
Spec == (Init \/ InitRunning) /\ [][Next]_vars


(***************************************************************************)
(* Properties of the timer flow.                                           *)
(***************************************************************************)
Running == {i \in TimerIdx : is_active(timers[i])}

\* C1: in every run of a timer (from one start() to the next, or to expiry)
\* its name is enqueued at most once, and a run that lasts its TIMER_DURATION
\* ticks has enqueued it exactly once; a restarted run is a run like any other.
PreAlertOncePerRun ==
    \A i \in TimerIdx :
        /\ alerts[i] <= 1
        /\ since[i] >= TIMER_DURATION => alerts[i] = 1

\* A timer restarted mid-countdown has run to expiry and alerted once more.
RestartedRunAlerted ==
    \E i \in TimerIdx :
        /\ runFrom[i] = "mid"
        /\ since[i] = TIMER_DURATION
        /\ alerts[i] = 1
        /\ Len(SelectSeq(speech_queue, LAMBDA x : x = timers[i].name)) >= 2

\* C2: the tick_all that enqueues a timer's name is tick number
\* TIMER_DURATION - 3 since its start(), and leaves its remaining at 3.
AlertLeavesThreshold ==
    \A i \in alerted :
        /\ since[i] = TIMER_DURATION - PRE_ALERT
        /\ timers[i].remaining = PRE_ALERT

\* What the code does instead: the enqueue is in tick TIMER_DURATION - 2,
\* which leaves 2 seconds.
AlertLeavesTwo ==
    \A i \in alerted :
        /\ since[i] = TIMER_DURATION - PRE_ALERT + 1
        /\ timers[i].remaining = PRE_ALERT - 1

AlertSeen == alerted # {}

DigitVal(c) == CHOOSE d \in 0..9 : Digit(d) = c

\* l reads MM:SS for r seconds.
IsMMSS(l, r) ==
    /\ Len(l) = 5
    /\ l[3] = ":"
    /\ \A k \in {1, 2, 4, 5} : \E d \in 0..9 : l[k] = Digit(d)
    /\ 10 * DigitVal(l[4]) + DigitVal(l[5]) < 60
    /\ 60 * (10 * DigitVal(l[1]) + DigitVal(l[2]))
         + 10 * DigitVal(l[4]) + DigitVal(l[5]) = r

\* C5: right after tick_all the next-boss labels show the Running timer with
\* the least remaining, the first-declared of them on a tie, as MM:SS; both
\* are empty when no timer is Running.
SoonestPublished ==
    op = "tick_all" =>
        IF Running = {}
        THEN label_next = "" /\ label_timer = <<>>
        ELSE \E i \in Running :
                /\ \A j \in Running :
                      \/ timers[i].remaining < timers[j].remaining
                      \/ timers[i].remaining = timers[j].remaining /\ i <= j
                /\ label_next = timers[i].name
                /\ IsMMSS(label_timer, timers[i].remaining)

\* Two Running timers tie and the first-declared one is shown.
SoonestTie ==
    /\ op = "tick_all"
    /\ Running = TimerIdx
    /\ timers[1].remaining = timers[2].remaining
    /\ label_next = timers[1].name

\* C6: a trigger, by button or by detection, leaves the timer it names with
\* remaining = 1195 and active, whatever state it found the timer in.
StartAlwaysRestarts ==
    op \in {"handle_button", "on_boss_detected"} /\ trig # 0 =>
        /\ timers[trig].remaining = 1195
        /\ is_active(timers[trig])

\* A detection event has restarted a timer that was counting down.
DetectionRestartedMid ==
    /\ op = "on_boss_detected"
    /\ trig # 0
    /\ runFrom[trig] = "mid"
    /\ timers[trig].remaining = TIMER_DURATION

\* C7: k ticks after start(), remaining = TIMER_DURATION - k and the timer is
\* active while k < TIMER_DURATION; from k = TIMER_DURATION on, remaining = 0
\* and the timer is inactive.
CountdownExact ==
    \A i \in TimerIdx :
        since[i] >= 0 =>
            IF since[i] < TIMER_DURATION
            THEN timers[i].remaining = TIMER_DURATION - since[i] /\ is_active(timers[i])
            ELSE timers[i].remaining = 0 /\ ~is_active(timers[i])

\* A timer has expired and been ticked once more.
TickedPastExpiry ==
    \E i \in TimerIdx :
        /\ since[i] = TIMER_DURATION + 1
        /\ timers[i].remaining = 0
        /\ ~is_active(timers[i])

(***************************************************************************)
(* Properties of the sampling loop.                                        *)
(***************************************************************************)
\* C3: over two or more consecutive samples in which one and the same
\* template alone qualifies, the first of them having emitted it, exactly one
\* event is emitted and last_detected_boss stays that template's key.
DedupOverStreak ==
    streakLen >= 2 => streakEmits = 1 /\ last_detected_boss = streakKey

\* C4 as stated: a template emitted before that qualifies again right after
\* a sample with no qualifying template is emitted on that sample.
ReappearanceFires ==
    \A k \in reappeared : sampleEmit = <<k>>

\* C4, amended: it is emitted on that sample when it is the first qualifying
\* template of the sample in template order.
ReappearanceFiresFirst ==
    \A k \in reappeared : sampleFirst = <<k>> => sampleEmit = <<k>>

\* A template has been emitted, gone for a sample and been emitted again.
ReappearedAndEmitted ==
    \E k \in reappeared : sampleFirst = <<k>> /\ sampleEmit = <<k>>

(***************************************************************************)
(* Properties of the notification flow.                                    *)
(***************************************************************************)
IsPrefix(a, b) == Len(a) <= Len(b) /\ SubSeq(b, 1, Len(a)) = a

\* The last sampling iteration raised an error.
LastSampleRaised == samples > 0 /\ sampleFirst = <<>> /\ ~prevNone

\* C8: whenever the GUI thread is between handlers tick_all runs to its end
\* without blocking, whatever the worker and the sampling loop are doing, and
\* every tick_all since a timer's start() has taken exactly one second off it.
TickFlowIsolated ==
    /\ gui_pc = "idle" => ~TickAllBlocked
    /\ \A i \in TimerIdx :
          since[i] >= 0 =>
              timers[i].remaining =
                  IF since[i] < TIMER_DURATION THEN TIMER_DURATION - since[i] ELSE 0

\* tick_all has enqueued a name for a worker that a failed delivery ended,
\* after a sampling iteration that raised.
TickedPastDeadWorker ==
    /\ op = "tick_all"
    /\ alerted # {}
    /\ worker_pc = "dead"
    /\ LastSampleRaised

\* C9: deliveries begin in the order of the puts, each payload at most once,
\* and one begins only when the one before it has completed.
OrderedDelivery ==
    /\ IsPrefix(begun, enqueued)
    /\ IsPrefix(delivered, begun)
    /\ Len(begun) <= Len(delivered) + 1
    /\ Len(begun) = Len(delivered) + 1 => worker_pc \in {"say", "dead", "killed"}

\* Three payloads were put while the worker ran, and all three delivered.
ThreeDelivered ==
    /\ Len(delivered) = 3
    /\ delivered[1] # delivered[2]
    /\ delivered[2] # delivered[3]

\* C10: once stop() has put the sentinel, a worker that has ended has
\* delivered every payload put before it.
DrainedBeforeExit ==
    sentinelAt >= 0 /\ worker_pc \in {"done", "dead", "killed"} =>
        delivered = SubSeq(enqueued, 1, sentinelAt)

\* C11: a delivery that raises does not end the worker: no payload waits in
\* the queue of a worker that a failed delivery has ended.
FailedDeliverySkipped ==
    worker_pc = "dead" => speech_queue = <<>>

(***************************************************************************)
(* Properties of the triggers.                                             *)
(***************************************************************************)
\* C12: when the slot has run for a name that no timer has, an UnknownBoss
\* error has been reported.
UnknownBossReported ==
    op = "on_boss_detected" /\ trig = 0 => "UnknownBoss" \in printed

(***************************************************************************)
(* Properties of the control of the sampling loop.                         *)
(***************************************************************************)
\* The scanner thread is an operating-system thread: each step of run that
\* can be taken is taken in the end.
SpecScannerFair ==
    /\ SpecScanner
    /\ WF_vars(ScanCheck)
    /\ WF_vars(\E s \in Samples : ScanIterate(s))
    /\ WF_vars(ScanSleep)
    /\ WF_vars(ScanFinish)

\* C13: once stop_scan() has returned and while no start_scan() follows, the
\* loop completes at most the iteration it was in when stop_scan() returned,
\* which emits at most one event, enters the body no more after it, and
\* (the event of that iteration finding room in the event queue) exits.
StopWithinOnePeriod ==
    /\ [](~scan_active =>
            /\ afterStop.iters <= (IF afterStop.at = "body" THEN 1 ELSE 0)
            /\ afterStop.emits <= afterStop.iters
            /\ scan_pc = "body" => afterStop.at = "body" /\ afterStop.iters = 0)
    /\ (~scan_active /\ Len(signals) < MaxSignals) ~> (scan_pc = "off" \/ scan_active)

\* stop_scan() returned during an iteration; that iteration emitted an event
\* and the loop has exited.
StoppedMidIteration ==
    /\ ~scan_active
    /\ afterStop = [at |-> "body", iters |-> 1, emits |-> 1]
    /\ scan_pc = "off"

\* C14: an iteration that raises emits no event, prints the error and goes on
\* to the same time.sleep as any other iteration; after it the loop reaches
\* the body of the next iteration unless the scanner is stopped meanwhile.
RaisedIterationContained ==
    /\ [][scan_pc = "body" /\ scan_pc' # "body" /\ sampleRaised' =>
            /\ signals' = signals
            /\ sampleEmit' = <<>>
            /\ SCAN_ERROR_TEXT \in printed'
            /\ scan_pc' = "sleep"]_vars
    /\ (sampleRaised /\ scan_pc = "sleep") ~> (scan_pc = "body" \/ ~scan_active)

\* The iteration after one that raised has begun.
IterationAfterRaise ==
    /\ sampleRaised
    /\ sampleEmit = <<>>
    /\ scan_active
    /\ scan_pc = "body"

\* C15: a sample in which nothing raises emits no other key than that of its
\* first qualifying template in template order.
FirstMatchWins ==
    sampleFirst # <<>> => sampleEmit \in {<<>>, sampleFirst}

\* C16: whenever start_scan() is the control call completed last (the GUI
\* thread is between handlers and the active flag is set), the sampling loop
\* is running: it has not broken out of while True and has not returned.
StartedLoopRuns ==
    gui_pc = "idle" /\ scan_active => scan_pc \in {"top", "body", "sleep"}

(***************************************************************************)
(* Properties of the timers and their labels.                              *)
(***************************************************************************)
\* C17: label_now shows the name of the timer started last, by button or by
\* detection, and is empty exactly when no timer has been started; no
\* tick_all and no expiry changes it.
CurrentBossIsLastTriggered ==
    /\ lastTrig = 0 <=> label_now = ""
    /\ lastTrig # 0 => label_now = timers[lastTrig].name

\* The boss triggered last was triggered while Running, has expired since
\* under tick_all, and is still the one shown; the other timer was triggered
\* before it.
LastTriggeredShownPastExpiry ==
    /\ lastTrig # 0
    /\ runFrom[lastTrig] \in {"fresh", "mid"}
    /\ since[lastTrig] >= TIMER_DURATION
    /\ op = "tick_all"
    /\ label_now = timers[lastTrig].name
    /\ \E j \in TimerIdx : j # lastTrig /\ since[j] >= 0

\* C18: every timer has 0 <= remaining <= TIMER_DURATION and is active
\* exactly when remaining > 0.
RemainingInRange ==
    \A i \in TimerIdx :
        /\ timers[i].remaining \in 0..TIMER_DURATION
        /\ is_active(timers[i]) <=> timers[i].remaining > 0

\* All at once: a timer that has expired, at 0 and inactive, and one just
\* restarted, at TIMER_DURATION and active.
ExpiredBesideRestarted ==
    \E i, j \in TimerIdx :
        /\ since[i] >= TIMER_DURATION
        /\ timers[i].remaining = 0
        /\ ~is_active(timers[i])
        /\ runFrom[j] = "expired"
        /\ timers[j].remaining = TIMER_DURATION
        /\ is_active(timers[j])

\* C19: a trigger for a timer changes that timer and label_now and nothing
\* else of the timers and their labels; tick_all leaves every timer that is
\* not Running as it is; a detection event naming no timer changes no timer
\* and no label.
TimersIndependent ==
    [][/\ op' \in {"handle_button", "on_boss_detected"} /\ trig' # 0 =>
            /\ \A j \in TimerIdx : j # trig' => timers'[j] = timers[j]
            /\ timers'[trig'].name = timers[trig'].name
            /\ UNCHANGED <<label_next, label_timer>>
       /\ op' = "on_boss_detected" /\ trig' = 0 => UNCHANGED timerVars
       /\ op' = "tick_all" =>
            \A j \in TimerIdx : ~is_active(timers[j]) => timers'[j] = timers[j]]_vars

\* A trigger has just restarted an expired timer while the other timer is
\* part-way through its countdown.
TriggeredBesideCounting ==
    /\ trig # 0
    /\ \E j \in TimerIdx :
          /\ j # trig
          /\ is_active(timers[j])
          /\ timers[j].remaining < TIMER_DURATION
          /\ timers[j].color = "red"
    /\ runFrom[trig] = "expired"

\* C20: a timer is red exactly while it is Running, black exactly while it has
\* never been started, and green exactly from the tick in which its remaining
\* reaches 0 (tick number TIMER_DURATION of the run) until its next start().
ColorTracksCountdown ==
    \A i \in TimerIdx :
        /\ timers[i].color \in {"black", "red", "green"}
        /\ timers[i].color = "red" <=> is_active(timers[i])
        /\ timers[i].color = "black" <=> since[i] = -1
        /\ timers[i].color = "green" <=> since[i] >= TIMER_DURATION

\* The three colours in turn: a timer has run to green and been started
\* again, to red, beside one that has just turned green.
GreenThenRedAgain ==
    \E i, j \in TimerIdx :
        /\ runFrom[i] = "expired"
        /\ timers[i].color = "red"
        /\ since[j] = TIMER_DURATION
        /\ timers[j].color = "green"

====
